---- MODULE Spec2Model ----
(***************************************************************************)
(* Model of update_graph, the single callback of                           *)
(* Trading_Analyzer_By_Abu_Sanad.py: parameter validation, download,       *)
(* indicator warm-up and dropna, the per-row signal classifier, the trade  *)
(* simulation loop, the run summary and the three returned outputs.        *)
(*                                                                         *)
(* Numbers.  Prices are whole SAR amounts.  The portfolio, the profit and  *)
(* the summary figures are exact rationals <<num, den>> (den > 0, lowest   *)
(* terms); the code computes them in binary floating point, so the model   *)
(* is the exact-arithmetic reading of the same expressions.  Every         *)
(* "{x:.2f}" of the code is Fmt2, which rounds to hundredths.              *)
(* Dates are day ordinals counted from the first row that survives dropna. *)
(* None is the value of a local that is not bound, or of a Python None.    *)
(*                                                                         *)
(* The downloaded series is known by its length and, row by row, by the    *)
(* date, the Close and the indicator values of the rows that survive       *)
(* dropna; the values pandas_ta and rolling().mean() produce are inputs.   *)
(* The ticker and the period only select the series and are left out.      *)
(***************************************************************************)
EXTENDS Integers, Sequences, FiniteSets

VARIABLES pc, n_clicks, sma_short, sma_long, adl_short, adl_long,
          rsi_threshold, df, i, index, row, portfolio, trades, buy_price,
          trade_start, number_of_trades, final_value, total_return,
          percentage_return, average_days, result

vars == <<pc, n_clicks, sma_short, sma_long, adl_short, adl_long,
          rsi_threshold, df, i, index, row, portfolio, trades, buy_price,
          trade_start, number_of_trades, final_value, total_return,
          percentage_return, average_days, result>>

inputs == <<n_clicks, sma_short, sma_long, adl_short, adl_long, rsi_threshold>>

sim == <<portfolio, trades, buy_price, trade_start, number_of_trades>>

summary == <<final_value, total_return, percentage_return, average_days>>

None == -1

\* ---------------------------------------------------------------- bounds
\* Longest series the download returns.
MaxSeriesLen == 37

\* Largest gap in days between two consecutive rows of the series.
MaxGap == 2

\* ------------------------------------------------------ program constants
initial_investment == 100000

RsiLength == 14

MacdSlow == 26

MacdSignal == 9

\* -------------------------------------------------------- input domains
Windows == {7, 10, 36}

Thresholds == {40, 70}

Prices == {50, 55}

IndicatorRows ==
  [Close : Prices, SMA_Short : {50, 60}, SMA_Long : {45, 50, 70},
   ADL_Short_SMA : {0, 1}, ADL_Long_SMA : {0, 1}, RSI : {40, 70},
   MACD_12_26_9 : {0, 1}, MACDs_12_26_9 : {0, 1}]

\* ----------------------------------------------------- exact arithmetic
Abs(x) == IF x < 0 THEN -x ELSE x

RECURSIVE Gcd(_, _)
Gcd(a, b) == IF b = 0 THEN a ELSE Gcd(b, a % b)

Max(a, b) == IF a >= b THEN a ELSE b

\* n/d in lowest terms with a positive denominator (d # 0).
Rat(n, d) ==
  LET g == Gcd(Abs(n), Abs(d))
      s == IF d < 0 THEN -1 ELSE 1
  IN  <<(s * n) \div g, (s * d) \div g>>

RInt(k) == <<k, 1>>

RAdd(a, b) == Rat(a[1] * b[2] + b[1] * a[2], a[2] * b[2])

RSub(a, b) == Rat(a[1] * b[2] - b[1] * a[2], a[2] * b[2])

\* cross-reduced so that the intermediate products stay small
RMul(a, b) ==
  LET x == Rat(a[1], b[2])
      y == Rat(b[1], a[2])
  IN  Rat(x[1] * y[1], x[2] * y[2])

RDiv(a, b) == RMul(a, Rat(b[2], b[1]))

\* "{x:.2f}": x rounded to the nearest hundredth, ties to even; the result
\* is the number of hundredths.
Fmt2(a) ==
  LET n == 100 * a[1]
      q == n \div a[2]
      r == n % a[2]
  IN  IF 2 * r < a[2] THEN q
      ELSE IF 2 * r > a[2] THEN q + 1
      ELSE IF q % 2 = 0 THEN q ELSE q + 1

RECURSIVE SumDaysHeld(_)
SumDaysHeld(ts) ==
  IF ts = <<>> THEN 0 ELSE ts[1].Days_Held + SumDaysHeld(Tail(ts))

\* ------------------------------------------------------------ validation
\* The message of the ValueError raised by the input checks, "" when the
\* inputs pass.
\* Variant: the checks reject only a short window above the long one.
ValidateInputsStrict(ss, sl, as, al) ==
  IF ss > sl THEN "Short SMA period must be less than Long SMA period."
  ELSE IF as > al
       THEN "Short ADL SMA period must be less than Long ADL SMA period."
       ELSE ""

ValidateInputs(ss, sl, as, al) ==
  IF ss >= sl THEN "Short SMA period must be less than Long SMA period."
  ELSE IF as >= al
       THEN "Short ADL SMA period must be less than Long ADL SMA period."
       ELSE ""

\* ------------------------------------------------------------ indicators
\* Position of the first row in which every indicator column is defined:
\* a rolling mean of window w is NaN before position w - 1, the RSI before
\* position RsiLength, the MACD signal line before position
\* MacdSlow + MacdSignal - 2.
FirstValid(sl, al) ==
  Max(Max(sl - 1, al - 1), Max(RsiLength, MacdSlow + MacdSignal - 2))

\* Rows left by dropna in a series of n rows.
DropNa(n, sl, al) == Max(0, n - FirstValid(sl, al))

\* ------------------------------------------------------------ classifier
\* Variant: Sell requires the close strictly above the short SMA.
SignalStrictClose(r, thr) ==
  IF /\ r.Close > r.SMA_Short
     /\ r.SMA_Short > r.SMA_Long
     /\ r.ADL_Short_SMA > r.ADL_Long_SMA
     /\ r.RSI >= thr
     /\ r.MACD_12_26_9 > r.MACDs_12_26_9
  THEN -1
  ELSE IF r.Close < r.SMA_Short /\ r.SMA_Short < r.SMA_Long THEN 1 ELSE 0

Signal(r, thr) ==
  IF /\ r.Close >= r.SMA_Short
     /\ r.SMA_Short > r.SMA_Long
     /\ r.ADL_Short_SMA > r.ADL_Long_SMA
     /\ r.RSI >= thr
     /\ r.MACD_12_26_9 > r.MACDs_12_26_9
  THEN -1
  ELSE IF r.Close < r.SMA_Short /\ r.SMA_Short < r.SMA_Long THEN 1 ELSE 0

\* The values the Signal column takes on the rows with a given Close.
SignalsAt(close, thr) ==
  {Signal(r, thr) : r \in {x \in IndicatorRows : x.Close = close}}

\* ------------------------------------------------------- simulation loop
\* Variant: the percentage is taken of the portfolio after the profit.
TradeRecordPostProfit(idx, bp, sp, start, profit, pf) ==
  [ Sell_Date         |-> idx,
    Buy_Price         |-> Fmt2(RInt(bp)),
    Sell_Price        |-> Fmt2(RInt(sp)),
    Days_Held         |-> idx - start,
    Profit            |-> Fmt2(profit),
    Profit_Percentage |-> Fmt2(RMul(RDiv(profit, pf), RInt(100))) ]

\* The dictionary appended to trades by a closing Sell.  pf is the
\* portfolio after the profit was added.
TradeRecord(idx, bp, sp, start, profit, pf) ==
  [ Sell_Date         |-> idx,
    Buy_Price         |-> Fmt2(RInt(bp)),
    Sell_Price        |-> Fmt2(RInt(sp)),
    Days_Held         |-> idx - start,
    Profit            |-> Fmt2(profit),
    Profit_Percentage |-> Fmt2(RMul(RDiv(profit, RSub(pf, profit)), RInt(100))) ]

\* The Sell branch of the loop body.
ClosePosition(s, idx, close) ==
  LET sell_price == close
      shares == RDiv(s.portfolio, RInt(s.buy_price))
      profit == RMul(RInt(sell_price - s.buy_price), shares)
      pf     == RAdd(s.portfolio, profit)
  IN  [s EXCEPT !.portfolio = pf,
                !.trades = Append(s.trades,
                             TradeRecord(idx, s.buy_price, sell_price,
                                         s.trade_start, profit, pf)),
                !.buy_price = None]

\* Variant: a Buy while a position is open re-enters at the new close.
LoopBodyReenter(s, idx, close, sig) ==
  IF sig = 1
  THEN [s EXCEPT !.buy_price = close,
                 !.trade_start = idx,
                 !.number_of_trades = s.number_of_trades + 1]
  ELSE IF sig = -1 /\ s.buy_price # None
  THEN ClosePosition(s, idx, close)
  ELSE s

\* Variant: an open position is marked to market on every Hold row.
LoopBodyMarkToMarket(s, idx, close, sig) ==
  IF sig = 1 /\ s.buy_price = None
  THEN [s EXCEPT !.buy_price = close,
                 !.trade_start = idx,
                 !.number_of_trades = s.number_of_trades + 1]
  ELSE IF sig = -1 /\ s.buy_price # None
  THEN ClosePosition(s, idx, close)
  ELSE IF sig = 0 /\ s.buy_price # None
  THEN [s EXCEPT !.portfolio =
                    RMul(s.portfolio, Rat(close, s.buy_price)),
                 !.buy_price = close]
  ELSE s

\* Variant: the Sell branch does not clear buy_price.
LoopBodyKeepPosition(s, idx, close, sig) ==
  IF sig = 1 /\ s.buy_price = None
  THEN [s EXCEPT !.buy_price = close,
                 !.trade_start = idx,
                 !.number_of_trades = s.number_of_trades + 1]
  ELSE IF sig = -1 /\ s.buy_price # None
  THEN [ClosePosition(s, idx, close) EXCEPT !.buy_price = s.buy_price]
  ELSE s

\* Variant: the trade is counted when it is closed, not when it is opened.
LoopBodyCountOnSell(s, idx, close, sig) ==
  IF sig = 1 /\ s.buy_price = None
  THEN [s EXCEPT !.buy_price = close,
                 !.trade_start = idx]
  ELSE IF sig = -1 /\ s.buy_price # None
  THEN [ClosePosition(s, idx, close)
          EXCEPT !.number_of_trades = s.number_of_trades + 1]
  ELSE s

\* One iteration of the loop over df.iterrows(): s holds the loop's locals,
\* idx is the row's date, close its Close and sig its Signal.
LoopBody(s, idx, close, sig) ==
  IF sig = 1 /\ s.buy_price = None
  THEN [s EXCEPT !.buy_price = close,
                 !.trade_start = idx,
                 !.number_of_trades = s.number_of_trades + 1]
  ELSE IF sig = -1 /\ s.buy_price # None
  THEN ClosePosition(s, idx, close)
  ELSE s

\* ---------------------------------------------------------------- summary
AverageDays(ts, n) == IF n > 0 THEN Rat(SumDaysHeld(ts), n) ELSE RInt(0)

SummaryText(fv, tr, pr, n, avg) ==
  [ kind |-> "summary",
    Final_Portfolio_Value |-> Fmt2(fv),
    Total_Return |-> Fmt2(tr),
    Percentage_Return |-> Fmt2(pr),
    Number_of_Trades |-> n,
    Average_Days_Held_per_Trade |-> Fmt2(avg) ]

TextOnly(kind) ==
  [ kind |-> kind,
    Final_Portfolio_Value |-> None,
    Total_Return |-> None,
    Percentage_Return |-> None,
    Number_of_Trades |-> None,
    Average_Days_Held_per_Trade |-> None ]

\* The three outputs of the callback.
Outputs(fig, text, table) == [figure |-> fig, summary |-> text, table |-> table]

\* The third output: "" (kind "empty"), the Div saying that no trade was
\* executed, or the table of the trades.
Table(kind, rows) == [kind |-> kind, rows |-> rows]

\* except-branch of update_graph: empty figure, the message, empty table.
ErrorOutputs(msg) == Outputs("empty", TextOnly(msg), Table("empty", <<>>))

NoOutputs == Outputs("none", TextOnly("none"), Table("empty", <<>>))

NoDf == [len |-> 0, stage |-> "none"]

NoRow == [Close |-> None, Signal |-> 0]

\* ------------------------------------------------------------------ Init
Init ==
  /\ pc = "idle"
  /\ n_clicks = None
  /\ sma_short = None /\ sma_long = None
  /\ adl_short = None /\ adl_long = None
  /\ rsi_threshold = None
  /\ df = NoDf
  /\ i = 0
  /\ index = None
  /\ row = NoRow
  /\ portfolio = RInt(0)
  /\ trades = <<>>
  /\ buy_price = None
  /\ trade_start = None
  /\ number_of_trades = 0
  /\ final_value = RInt(0)
  /\ total_return = RInt(0)
  /\ percentage_return = RInt(0)
  /\ average_days = RInt(0)
  /\ result = NoOutputs

\* --------------------------------------------------------------- actions
\* Dash fires the callback with the current values of the form.
Callback ==
  /\ pc = "idle"
  /\ n_clicks' \in {None, 1}
  /\ sma_short' \in Windows /\ sma_long' \in Windows
  /\ adl_short' \in Windows /\ adl_long' \in Windows
  /\ rsi_threshold' \in Thresholds
  /\ pc' = "entered"
  /\ UNCHANGED <<df, i, index, row, sim, summary, result>>

\* n_clicks is None: the page has just loaded.
InitialCall ==
  /\ pc = "entered"
  /\ n_clicks = None
  /\ result' = Outputs("empty", TextOnly("Awaiting input parameters."),
                       Table("empty", <<>>))
  /\ pc' = "done"
  /\ UNCHANGED <<inputs, df, i, index, row, sim, summary>>

Validate ==
  /\ pc = "entered"
  /\ n_clicks # None
  /\ LET msg == ValidateInputs(sma_short, sma_long, adl_short, adl_long)
     IN  IF msg # ""
         THEN /\ result' = ErrorOutputs(msg)
              /\ pc' = "done"
         ELSE /\ pc' = "download"
              /\ UNCHANGED result
  /\ UNCHANGED <<inputs, df, i, index, row, sim, summary>>

\* yf.download returns a series of n rows; an empty one raises.
Download ==
  /\ pc = "download"
  /\ \E n \in 0..MaxSeriesLen :
       /\ df' = [len |-> n, stage |-> "raw"]
       /\ IF n = 0
          THEN /\ result' = ErrorOutputs("No data found for ticker symbol")
               /\ pc' = "done"
          ELSE /\ pc' = "indicators"
               /\ UNCHANGED result
  /\ UNCHANGED <<inputs, i, index, row, sim, summary>>

\* The indicator columns are added and the rows with a NaN are dropped.
Indicators ==
  /\ pc = "indicators"
  /\ df' = [len |-> DropNa(df.len, sma_long, adl_long), stage |-> "clean"]
  /\ pc' = "signals"
  /\ UNCHANGED <<inputs, i, index, row, sim, summary, result>>

\* The Signal column is added (row by row, see LoopRow) and the locals of
\* the simulation are initialised.
StartSimulation ==
  /\ pc = "signals"
  /\ df' = [df EXCEPT !.stage = "signals"]
  /\ portfolio' = RInt(initial_investment)
  /\ trades' = <<>>
  /\ buy_price' = None
  /\ trade_start' = None
  /\ number_of_trades' = 0
  /\ i' = 0
  /\ pc' = "loop"
  /\ UNCHANGED <<inputs, index, row, summary, result>>

\* One iteration of the loop: the next row of df.  Its date, its Close and
\* its indicator values are the ones the series happens to hold; the loop
\* reads only the date, the Close and the Signal computed from the row.
LoopRow ==
  /\ pc = "loop"
  /\ i < df.len
  /\ \E close \in Prices, gap \in 1..MaxGap :
       \E sig \in SignalsAt(close, rsi_threshold) :
         LET idx == IF i = 0 THEN 0 ELSE index + gap
             s   == LoopBody([portfolio |-> portfolio, trades |-> trades,
                              buy_price |-> buy_price,
                              trade_start |-> trade_start,
                              number_of_trades |-> number_of_trades],
                             idx, close, sig)
         IN  /\ index' = idx
             /\ row' = [Close |-> close, Signal |-> sig]
             /\ portfolio' = s.portfolio
             /\ trades' = s.trades
             /\ buy_price' = s.buy_price
             /\ trade_start' = s.trade_start
             /\ number_of_trades' = s.number_of_trades
  /\ i' = i + 1
  /\ UNCHANGED <<pc, inputs, df, summary, result>>

Summarize ==
  /\ pc = "loop"
  /\ i = df.len
  /\ final_value' = portfolio
  /\ total_return' = RSub(portfolio, RInt(initial_investment))
  /\ percentage_return' =
       RMul(RDiv(RSub(portfolio, RInt(initial_investment)),
                 RInt(initial_investment)), RInt(100))
  /\ average_days' = AverageDays(trades, number_of_trades)
  /\ pc' = "render"
  /\ UNCHANGED <<inputs, df, i, index, row, sim, result>>

\* Figure, summary text and trades table are built and returned.
Return ==
  /\ pc = "render"
  /\ result' = Outputs("traces",
                       SummaryText(final_value, total_return,
                                   percentage_return, number_of_trades,
                                   average_days),
                       IF trades # <<>> THEN Table("table", trades)
                                        ELSE Table("no trades", <<>>))
  /\ pc' = "done"
  /\ UNCHANGED <<inputs, df, i, index, row, sim, summary>>

Next ==
  \/ Callback
  \/ InitialCall
  \/ Validate
  \/ Download
  \/ Indicators
  \/ StartSimulation
  \/ LoopRow
  \/ Summarize
  \/ Return

Spec == Init /\ [][Next]_vars

\* ------------------------------------------- the classifier on its own
\* The lambda of the Signal column applied to one fully populated row.
WithSignal(r, sig) ==
  [Close |-> r.Close, SMA_Short |-> r.SMA_Short, SMA_Long |-> r.SMA_Long,
   ADL_Short_SMA |-> r.ADL_Short_SMA, ADL_Long_SMA |-> r.ADL_Long_SMA,
   RSI |-> r.RSI, MACD_12_26_9 |-> r.MACD_12_26_9,
   MACDs_12_26_9 |-> r.MACDs_12_26_9, Signal |-> sig]

InitClassify ==
  /\ pc = "apply"
  /\ n_clicks = 1
  /\ sma_short = None /\ sma_long = None
  /\ adl_short = None /\ adl_long = None
  /\ rsi_threshold \in Thresholds
  /\ df = [len |-> 1, stage |-> "clean"]
  /\ i = 0
  /\ index = 0
  /\ row \in IndicatorRows
  /\ portfolio = RInt(0)
  /\ trades = <<>>
  /\ buy_price = None
  /\ trade_start = None
  /\ number_of_trades = 0
  /\ final_value = RInt(0)
  /\ total_return = RInt(0)
  /\ percentage_return = RInt(0)
  /\ average_days = RInt(0)
  /\ result = NoOutputs

Classify ==
  /\ pc = "apply"
  /\ row' = WithSignal(row, Signal(row, rsi_threshold))
  /\ pc' = "applied"
  /\ UNCHANGED <<inputs, df, i, index, sim, summary, result>>

NextClassify == Classify

SpecClassify == InitClassify /\ [][NextClassify]_vars

\* ======================================================== properties
LoopStep == pc = "loop" /\ i' = i + 1

Holding == buy_price # None

Succeeded == pc = "done" /\ result.summary.kind = "summary"

\* Error outcome: an empty figure, a message, an empty table and no figure
\* of the run summary.
ErrorOnly(msg) ==
  /\ result.figure = "empty"
  /\ result.table.kind = "empty"
  /\ result.table.rows = <<>>
  /\ result.summary.kind = msg
  /\ result.summary.Final_Portfolio_Value = None
  /\ result.summary.Total_Return = None
  /\ result.summary.Percentage_Return = None
  /\ result.summary.Number_of_Trades = None
  /\ result.summary.Average_Days_Held_per_Trade = None

\* C1: in the simulation loop at most one position is open after every row;
\* a Buy row met while a position is open leaves entry price, entry date,
\* capital and ledger unchanged; a Sell row met while flat leaves capital and
\* ledger unchanged and opens nothing; a Hold row changes neither the
\* Flat/Holding state nor capital nor ledger.
C1_IgnoredSignals ==
  [][LoopStep =>
       /\ number_of_trades' - Len(trades') \in {0, 1}
       /\ (row'.Signal = 1 /\ Holding) =>
            /\ buy_price' = buy_price
            /\ trade_start' = trade_start
            /\ portfolio' = portfolio
            /\ trades' = trades
       /\ (row'.Signal = -1 /\ ~Holding) =>
            /\ portfolio' = portfolio
            /\ trades' = trades
            /\ buy_price' = None
       /\ (row'.Signal = 0) =>
            /\ Holding' = Holding
            /\ buy_price' = buy_price
            /\ portfolio' = portfolio
            /\ trades' = trades]_vars

\* A Buy row at a close other than the entry price was met while holding.
C1_Witness ==
  /\ pc = "loop"
  /\ row.Signal = 1
  /\ Holding
  /\ row.Close # buy_price

\* C2: the Number of Trades of the run summary equals the number of
\* TradeRecords in the ledger, also when the run ends with a position open.
C2_TradeCountIsLedgerLength ==
  Succeeded => result.summary.Number_of_Trades = Len(trades)

\* C3: the reported average of days held is the sum of daysHeld over the
\* ledger divided by the number of its records, and 0 for an empty ledger,
\* also when the run ends with a position open.
C3_AverageOverLedger ==
  Succeeded =>
    result.summary.Average_Days_Held_per_Trade =
      Fmt2(IF trades = <<>> THEN RInt(0)
           ELSE Rat(SumDaysHeld(trades), Len(trades)))

\* Capital after the first k records of the ledger, from its prices.
RECURSIVE CapitalAfter(_, _)
CapitalAfter(ts, k) ==
  IF k = 0 THEN RInt(initial_investment)
  ELSE RMul(CapitalAfter(ts, k - 1),
            Rat(ts[k].Sell_Price, ts[k].Buy_Price))

\* C4: a position still open when the rows end is neither closed nor
\* recorded: no row that leaves a position open changes capital or ledger,
\* every record of the ledger was closed before the open position was
\* entered, and the final capital is the capital after the last closed
\* trade (the initial capital when there is none).
C4_OpenPositionExcluded ==
  /\ [][(LoopStep /\ Holding') =>
          (portfolio' = portfolio /\ trades' = trades)]_vars
  /\ []((Succeeded /\ Holding) =>
          /\ \A k \in 1..Len(trades) : trades[k].Sell_Date < trade_start
          /\ result.table.rows = trades
          /\ final_value = CapitalAfter(trades, Len(trades))
          /\ result.summary.Final_Portfolio_Value =
               Fmt2(CapitalAfter(trades, Len(trades)))
          /\ (trades = <<>> => final_value = RInt(initial_investment)))

\* The run ended with one closed trade that changed the capital and with a
\* later position open at another price than the last close.
C4_Witness ==
  /\ Succeeded
  /\ Holding
  /\ Len(trades) = 1
  /\ final_value # RInt(initial_investment)
  /\ row.Close # buy_price

\* C5: when a Sell closes a position, with shares = capital / entryPrice
\* and profit = (exitPrice - entryPrice) * shares, the capital becomes
\* capital + profit, capital_after * entryPrice = capital_before * exitPrice
\* and the recorded percentage is profit / capital_before * 100; capital
\* 100000, entry 50, exit 55 give shares 2000, profit 10000, capital 110000
\* and 10 percent.
C5_ClosingArithmetic ==
  [][(LoopStep /\ Holding /\ row'.Signal = -1) =>
       LET exit   == row'.Close
           shares == RDiv(portfolio, RInt(buy_price))
           profit == RMul(RInt(exit - buy_price), shares)
           rec    == trades'[Len(trades')]
       IN  /\ Len(trades') = Len(trades) + 1
           /\ portfolio' = RAdd(portfolio, profit)
           /\ RMul(portfolio', RInt(buy_price)) = RMul(portfolio, RInt(exit))
           /\ rec.Profit = Fmt2(profit)
           /\ rec.Profit_Percentage =
                Fmt2(RMul(RDiv(profit, portfolio), RInt(100)))
           /\ (portfolio = RInt(100000) /\ buy_price = 50 /\ exit = 55) =>
                /\ shares = RInt(2000)
                /\ profit = RInt(10000)
                /\ portfolio' = RInt(110000)
                /\ rec.Profit_Percentage = 1000]_vars

\* The trade of the example has just been closed.
C5_Witness ==
  /\ pc = "loop"
  /\ row.Signal = -1
  /\ Len(trades) = 1
  /\ trades[1].Buy_Price = 5000
  /\ trades[1].Sell_Price = 5500
  /\ portfolio = RInt(110000)

EntryDate(t) == t.Sell_Date - t.Days_Held

\* C6: with strictly increasing dates no two records of the ledger have
\* overlapping holding intervals (each entry is after the previous exit),
\* every daysHeld is >= 0 and the exit dates are in non-decreasing order.
C6_LedgerOrdered ==
  \A k \in 1..Len(trades) :
    /\ trades[k].Days_Held >= 0
    /\ k > 1 =>
         /\ EntryDate(trades[k]) > trades[k - 1].Sell_Date
         /\ trades[k - 1].Sell_Date <= trades[k].Sell_Date

C6_Witness == Len(trades) >= 2

SellRule(r, thr) ==
  /\ r.Close >= r.SMA_Short
  /\ r.SMA_Short > r.SMA_Long
  /\ r.ADL_Short_SMA > r.ADL_Long_SMA
  /\ r.RSI >= thr
  /\ r.MACD_12_26_9 > r.MACDs_12_26_9

BuyRule(r) == r.Close < r.SMA_Short /\ r.SMA_Short < r.SMA_Long

\* C7: the classifier gives every fully populated row exactly one of
\* Sell (-1), Buy (+1), Hold (0): Sell iff the five Sell conditions hold,
\* Buy iff Sell does not and the two Buy conditions hold, Hold otherwise;
\* the Sell and Buy conditions never hold together.
C7_ClassifierTotalExclusive ==
  pc = "applied" =>
    /\ row.Signal \in {-1, 0, 1}
    /\ row.Signal = -1 <=> SellRule(row, rsi_threshold)
    /\ row.Signal = 1 <=> (~SellRule(row, rsi_threshold) /\ BuyRule(row))
    /\ row.Signal = 0 <=> (~SellRule(row, rsi_threshold) /\ ~BuyRule(row))
    /\ ~(SellRule(row, rsi_threshold) /\ BuyRule(row))

\* A row whose close equals its short SMA was classified Sell.
C7_Witness ==
  /\ pc = "applied"
  /\ row.Signal = -1
  /\ row.Close = row.SMA_Short
  /\ row.RSI = rsi_threshold

\* C8: a non-empty series of which dropna leaves no row ends the run in a
\* failure, never in a successful result with an empty ledger.
C8_NoRowsIsFailure ==
  (pc = "done" /\ df.stage = "signals" /\ df.len = 0) =>
    (result.figure = "empty" /\ result.summary.kind # "summary")

BadWindows == sma_short >= sma_long \/ adl_short >= adl_long

\* C9: a request with smaShort >= smaLong or adlSmaShort >= adlSmaLong
\* fails before anything is fetched or computed, a fetched series without
\* rows fails before any indicator is computed, and either outcome is an
\* error message alone: no ledger, no run summary, no chart data.
C9_FailsWhole ==
  /\ (n_clicks # None /\ BadWindows /\ pc \notin {"idle", "entered"}) =>
       /\ pc = "done"
       /\ df = NoDf
       /\ trades = <<>>
       /\ IF sma_short >= sma_long
          THEN ErrorOnly("Short SMA period must be less than Long SMA period.")
          ELSE ErrorOnly("Short ADL SMA period must be less than Long ADL SMA period.")
  /\ (df.stage = "raw" /\ df.len = 0) =>
       /\ pc = "done"
       /\ trades = <<>>
       /\ ErrorOnly("No data found for ticker symbol")

\* A request with equal ADL windows has been answered.
C9_Witness ==
  /\ pc = "done"
  /\ n_clicks # None
  /\ sma_short < sma_long
  /\ adl_short = adl_long

\* C10: number_of_trades counts the positions opened so far: it exceeds the
\* length of the ledger by 1 exactly when a position is open and by 0 when
\* flat, never decreases and grows by at most 1 per row.
C10_CounterCountsOpenings ==
  /\ [](number_of_trades - Len(trades) = IF Holding THEN 1 ELSE 0)
  /\ [][number_of_trades' \in {number_of_trades, number_of_trades + 1}]_vars

\* A second position is open after one closed trade.
C10_Witness ==
  /\ Holding
  /\ number_of_trades = 2
  /\ Len(trades) = 1

====
